---- MODULE Spec2Model ----
(***************************************************************************)
(* Single-decree Paxos as implemented in paxos.py: the Acceptor and        *)
(* Proposer classes, driven through a transport that may reorder,          *)
(* duplicate and drop the four messages.                                   *)
(***************************************************************************)
EXTENDS Integers, Sequences, FiniteSets, TLC

(***************************************************************************)
(* Bounds of the model.                                                    *)
(***************************************************************************)
\* total number of get_prepare_message calls over all proposers
MaxPrepares == 2
\* a proposer's reply sets are not fed beyond this many recorded replies
MaxRecorded == 2
\* replies produced by acceptors that the transport holds at one time
MaxInFlight == 1
\* highest round number carried by the messages fed to one role on its own
MaxNumber == 1
\* the bounds of the retry scenario: rounds started, replies recorded
RetryPrepares == 3
RetryRecorded == 5

\* num_acceptors passed to Proposer(...) and the Acceptor instances built
num_acceptors == 3

Acceptors == {"acceptor-1", "acceptor-2", "acceptor-3"}
Proposers == {"proposer-1", "proposer-2"}
Values == {"foo", "bar"}

\* Python's None for Optional[str]; the unset Optional[ProposalNumber]
None == "None"
NoNumber == <<>>

(***************************************************************************)
(* ProposalNumber: NamedTuple (number, server_id), compared as a tuple.    *)
(***************************************************************************)
\* str comparison of the server ids in use: "" < "proposer-1" < "proposer-2"
ServerIdRank(s) ==
    CASE s = "" -> 0
      [] s = "proposer-1" -> 1
      [] s = "proposer-2" -> 2

ProposalNumber(number, server_id) == <<number, server_id>>

ProposalNumberMin == ProposalNumber(-1, "")

\* a > b on ProposalNumber tuples
PNGreater(a, b) ==
    \/ a[1] > b[1]
    \/ a[1] = b[1] /\ ServerIdRank(a[2]) > ServerIdRank(b[2])

\* a >= b on ProposalNumber tuples
PNGeq(a, b) == a = b \/ PNGreater(a, b)

(***************************************************************************)
(* Messages.                                                               *)
(***************************************************************************)
PrepareMessage(n) == [proposal_number |-> n]

PromiseMessage(id, apn, av) ==
    [from_server_id |-> id, accepted_proposal_number |-> apn, accepted_value |-> av]

AcceptMessage(n, v) == [proposal_number |-> n, value |-> v]

AcceptedMessage(id, n) == [from_server_id |-> id, proposal_number |-> n]

VARIABLES
    \* Acceptor fields
    min_proposal_number, accepted_proposal_number, accepted_value,
    \* Proposer fields
    curr_proposed_value, curr_proposed_number, chosen_value,
    max_round_number, curr_promises, curr_accepted,
    \* iteration order of the two reply sets at quorum size (hash order)
    promises_iter, accepted_iter,
    \* transport: requests broadcast, replies on their way back
    prepare_msgs, accept_msgs, promise_msgs, accepted_msgs,
    \* history: value handed to propose_value, outcome of the round
    client_value, promises_resolved, rejected, solo_retry, prepares_issued

acceptor_vars == <<min_proposal_number, accepted_proposal_number, accepted_value>>
proposer_vars == <<curr_proposed_value, curr_proposed_number, chosen_value,
                   max_round_number, curr_promises, curr_accepted,
                   promises_iter, accepted_iter>>
net_vars == <<prepare_msgs, accept_msgs, promise_msgs, accepted_msgs>>
hist_vars == <<client_value, promises_resolved, rejected, solo_retry, prepares_issued>>
vars == <<acceptor_vars, proposer_vars, net_vars, hist_vars>>

\* Proposer.__init__: simple majority
quorum_size == (num_acceptors \div 2) + 1

Init ==
    /\ min_proposal_number = [a \in Acceptors |-> ProposalNumberMin]
    /\ accepted_proposal_number = [a \in Acceptors |-> NoNumber]
    /\ accepted_value = [a \in Acceptors |-> None]
    /\ curr_proposed_value = [p \in Proposers |-> None]
    /\ curr_proposed_number = [p \in Proposers |-> NoNumber]
    /\ chosen_value = [p \in Proposers |-> None]
    /\ max_round_number = [p \in Proposers |-> 0]
    /\ curr_promises = [p \in Proposers |-> {}]
    /\ curr_accepted = [p \in Proposers |-> {}]
    /\ promises_iter = [p \in Proposers |-> <<>>]
    /\ accepted_iter = [p \in Proposers |-> <<>>]
    /\ prepare_msgs = {}
    /\ accept_msgs = {}
    /\ promise_msgs = {}
    /\ accepted_msgs = {}
    /\ client_value = [p \in Proposers |-> None]
    /\ promises_resolved = [p \in Proposers |-> FALSE]
    /\ rejected = [p \in Proposers |-> FALSE]
    /\ solo_retry = [p \in Proposers |-> FALSE]
    /\ prepares_issued = 0

(***************************************************************************)
(* Acceptor                                                                *)
(***************************************************************************)
\* a handler that takes every Prepare as the new floor
on_prepare_message_unguarded(a, msg) ==
    /\ min_proposal_number' = [min_proposal_number EXCEPT ![a] = msg.proposal_number]
    /\ UNCHANGED <<accepted_proposal_number, accepted_value>>

\* Acceptor.on_prepare_message: the update of the promise floor
on_prepare_message(a, msg) ==
    /\ min_proposal_number' =
         IF PNGeq(msg.proposal_number, min_proposal_number[a])
         THEN [min_proposal_number EXCEPT ![a] = msg.proposal_number]
         ELSE min_proposal_number
    /\ UNCHANGED <<accepted_proposal_number, accepted_value>>

\* a PromiseMessage that leaves out what the acceptor has accepted
on_prepare_reply_empty(a, msg) == PromiseMessage(a, NoNumber, None)

\* the PromiseMessage on_prepare_message returns (the accepted pair is not
\* touched by the handler, so it is read off the state the handler starts in)
on_prepare_reply(a, msg) ==
    PromiseMessage(a, accepted_proposal_number[a], accepted_value[a])

\* a handler that adopts every Accept
on_accept_message_unguarded(a, msg) ==
    /\ accepted_proposal_number' =
         [accepted_proposal_number EXCEPT ![a] = msg.proposal_number]
    /\ accepted_value' = [accepted_value EXCEPT ![a] = msg.value]
    /\ UNCHANGED min_proposal_number

\* Acceptor.on_accept_message: the update of the accepted pair
on_accept_message(a, msg) ==
    /\ IF PNGeq(msg.proposal_number, min_proposal_number[a])
       THEN /\ accepted_proposal_number' =
                 [accepted_proposal_number EXCEPT ![a] = msg.proposal_number]
            /\ accepted_value' = [accepted_value EXCEPT ![a] = msg.value]
       ELSE UNCHANGED <<accepted_proposal_number, accepted_value>>
    /\ UNCHANGED min_proposal_number

\* the AcceptedMessage on_accept_message returns
on_accept_reply(a, msg) == AcceptedMessage(a, min_proposal_number[a])

(***************************************************************************)
(* Proposer                                                                *)
(***************************************************************************)
\* an accumulation that drops a reply when it is handed in a second time
set_add_toggling(S, msg) == IF msg \in S THEN S \ {msg} ELSE S \cup {msg}

\* set.add on a set of NamedTuples: an element equal to msg is not added again
set_add(S, msg) == S \cup {msg}

\* a propose_value that stores the value whatever is set
propose_value_overwriting(p, value) ==
    /\ curr_proposed_value' = [curr_proposed_value EXCEPT ![p] = value]
    /\ client_value' = [client_value EXCEPT ![p] = value]
    /\ UNCHANGED <<curr_proposed_number, chosen_value, max_round_number,
                   curr_promises, curr_accepted, promises_iter, accepted_iter>>
    /\ UNCHANGED <<promises_resolved, rejected>>

\* Proposer.propose_value: the assertion fails when a value is already set
propose_value(p, value) ==
    /\ curr_proposed_value[p] = None
    /\ curr_proposed_value' = [curr_proposed_value EXCEPT ![p] = value]
    /\ client_value' = [client_value EXCEPT ![p] = value]
    /\ UNCHANGED <<curr_proposed_number, chosen_value, max_round_number,
                   curr_promises, curr_accepted, promises_iter, accepted_iter>>
    /\ UNCHANGED <<promises_resolved, rejected>>

\* a get_prepare_message that numbers the round without advancing the counter
\* past a round it has already run
get_prepare_message_reusing(p) ==
    /\ max_round_number' =
         [max_round_number EXCEPT ![p] = IF @ = 0 THEN 1 ELSE @]
    /\ curr_proposed_number' =
         [curr_proposed_number EXCEPT ![p] = ProposalNumber(max_round_number'[p], p)]
    /\ promises_resolved' = [promises_resolved EXCEPT ![p] = FALSE]
    /\ rejected' = [rejected EXCEPT ![p] = FALSE]
    /\ UNCHANGED <<curr_proposed_value, chosen_value, curr_promises, curr_accepted,
                   promises_iter, accepted_iter, client_value>>

\* Proposer.get_prepare_message
get_prepare_message(p) ==
    /\ max_round_number' = [max_round_number EXCEPT ![p] = @ + 1]
    /\ curr_proposed_number' =
         [curr_proposed_number EXCEPT ![p] = ProposalNumber(max_round_number'[p], p)]
    /\ promises_resolved' = [promises_resolved EXCEPT ![p] = FALSE]
    /\ rejected' = [rejected EXCEPT ![p] = FALSE]
    /\ UNCHANGED <<curr_proposed_value, chosen_value, curr_promises, curr_accepted,
                   promises_iter, accepted_iter, client_value>>

\* the assertion of Proposer.get_accept_message (an unset curr_proposed_number
\* is a missing attribute, which fails the call as well)
get_accept_message_ok(p) ==
    /\ curr_proposed_number[p] # NoNumber
    /\ curr_proposed_value[p] # None

\* an AcceptMessage that carries a value other than the proposer's
get_accept_message_other(p) ==
    AcceptMessage(curr_proposed_number[p],
                  CHOOSE v \in Values : v # curr_proposed_value[p])

\* the AcceptMessage Proposer.get_accept_message returns
get_accept_message(p) == AcceptMessage(curr_proposed_number[p], curr_proposed_value[p])

\* the orders in which a for loop can walk the set S
IterationOrders(S) ==
    {s \in [1..Cardinality(S) -> S] : \A i, j \in 1..Cardinality(S) : i # j => s[i] # s[j]}

\* the loop of on_promise_message over the recorded promises in order s:
\* the pair (highest_accepted_proposal_number, accepted_value) after i elements
RECURSIVE ScanPromises(_, _)
ScanPromises(s, i) ==
    IF i = 0 THEN <<ProposalNumberMin, None>>
    ELSE LET prev == ScanPromises(s, i - 1)
             res == s[i]
         IN IF res.accepted_proposal_number = NoNumber THEN prev
            ELSE IF PNGreater(res.accepted_proposal_number, prev[1])
                 THEN <<res.accepted_proposal_number, res.accepted_value>>
                 ELSE prev

\* a scan that keeps the first accepted pair it meets and compares nothing
HighestAcceptedFirstSeen(s) ==
    LET set == {i \in 1..Len(s) : s[i].accepted_proposal_number # NoNumber}
        first == CHOOSE i \in set : \A j \in set : i <= j
    IN IF set = {} THEN <<ProposalNumberMin, None>>
       ELSE <<s[first].accepted_proposal_number, s[first].accepted_value>>

\* the pair the loop of on_promise_message ends with
HighestAccepted(s) == ScanPromises(s, Len(s))

\* Proposer.on_promise_message
on_promise_message(p, msg) ==
    /\ curr_promises' = [curr_promises EXCEPT ![p] = set_add(@, msg)]
    /\ IF Cardinality(curr_promises'[p]) = quorum_size
       THEN /\ \E s \in IterationOrders(curr_promises'[p]) :
                 /\ promises_iter[p] # <<>> => s = promises_iter[p]
                 /\ promises_iter' = [promises_iter EXCEPT ![p] = s]
            /\ LET scan == HighestAccepted(promises_iter'[p])
               IN curr_proposed_value' =
                    IF scan[2] # None
                    THEN [curr_proposed_value EXCEPT ![p] = scan[2]]
                    ELSE curr_proposed_value
            /\ promises_resolved' = [promises_resolved EXCEPT ![p] = TRUE]
       ELSE UNCHANGED <<promises_iter, curr_proposed_value, promises_resolved>>
    /\ UNCHANGED <<curr_proposed_number, chosen_value, max_round_number,
                   curr_accepted, accepted_iter, client_value, rejected>>

\* index of the first element of s that carries a number other than n
FirstDiffering(s, n) ==
    LET hits == {i \in 1..Len(s) : s[i].proposal_number # n}
    IN IF hits = {} THEN 0 ELSE CHOOSE i \in hits : \A j \in hits : i <= j

\* index of the first element of s that carries a number above n, 0 if none
FirstRejecting(s, n) ==
    LET hits == {i \in 1..Len(s) : PNGreater(s[i].proposal_number, n)}
    IN IF hits = {} THEN 0 ELSE CHOOSE i \in hits : \A j \in hits : i <= j

\* Proposer.on_accepted_message (at quorum size with no round started the
\* assertion fails after the reply was recorded)
on_accepted_message(p, msg) ==
    /\ curr_accepted' = [curr_accepted EXCEPT ![p] = set_add(@, msg)]
    /\ IF /\ Cardinality(curr_accepted'[p]) = quorum_size
          /\ curr_proposed_number[p] # NoNumber
       THEN /\ \E s \in IterationOrders(curr_accepted'[p]) :
                 /\ accepted_iter[p] # <<>> => s = accepted_iter[p]
                 /\ accepted_iter' = [accepted_iter EXCEPT ![p] = s]
            /\ LET k == FirstRejecting(accepted_iter'[p], curr_proposed_number[p])
               IN IF k = 0
                  THEN /\ chosen_value' = [chosen_value EXCEPT ![p] = curr_proposed_value[p]]
                       /\ UNCHANGED <<max_round_number, rejected>>
                  ELSE /\ max_round_number' =
                            [max_round_number EXCEPT ![p] = accepted_iter'[p][k].proposal_number[1]]
                       /\ chosen_value' =
                            IF k > 1
                            THEN [chosen_value EXCEPT ![p] = curr_proposed_value[p]]
                            ELSE chosen_value
                       /\ rejected' = [rejected EXCEPT ![p] = TRUE]
       ELSE UNCHANGED <<accepted_iter, chosen_value, max_round_number, rejected>>
    /\ UNCHANGED <<curr_proposed_value, curr_proposed_number, curr_promises,
                   promises_iter, client_value, promises_resolved>>

(***************************************************************************)
(* The system: clients call the proposers, the transport carries the four  *)
(* messages between proposers and acceptors.                               *)
(***************************************************************************)
\* chosen_value of p is set
Decided(p) == chosen_value[p] # None

\* the acceptors that sent the replies of S
SenderIds(S) == {m.from_server_id : m \in S}

\* the client of proposer p hands it this value (test_case_1, test_case_2)
ClientValue(p) == IF p = "proposer-1" THEN "foo" ELSE "bar"

InFlight == Cardinality(promise_msgs) + Cardinality(accepted_msgs)

\* p is in a retry round that no other proposer has disturbed so far
SoloAfter(p, retry) ==
    solo_retry' = [q \in Proposers |-> IF q = p THEN retry ELSE FALSE]

ClientProposes(p, value) ==
    /\ propose_value(p, value)
    /\ UNCHANGED <<acceptor_vars, net_vars, solo_retry, prepares_issued>>

\* a round starts: the Prepare returned is broadcast
StartRound(p, budget) ==
    /\ curr_proposed_value[p] # None
    /\ prepares_issued < budget
    /\ get_prepare_message(p)
    /\ prepare_msgs' = prepare_msgs \cup {PrepareMessage(curr_proposed_number'[p])}
    /\ prepares_issued' = prepares_issued + 1
    /\ SoloAfter(p, rejected[p])
    /\ UNCHANGED <<acceptor_vars, accept_msgs, promise_msgs, accepted_msgs>>

\* the Accept returned by get_accept_message is broadcast
BroadcastAccept(p) ==
    /\ get_accept_message_ok(p)
    /\ accept_msgs' = accept_msgs \cup {get_accept_message(p)}
    /\ SoloAfter(p, solo_retry[p])
    /\ UNCHANGED <<acceptor_vars, proposer_vars, prepare_msgs, promise_msgs, accepted_msgs>>
    /\ UNCHANGED <<client_value, promises_resolved, rejected, prepares_issued>>

\* the reply r to request m, on its way to the sender of m
Reply(m, r) == [to |-> m.proposal_number[2], req |-> m.proposal_number, msg |-> r]

\* an acceptor handles a Prepare; the Promise is sent back, or lost
AcceptorPrepare(a, m, lost) ==
    /\ on_prepare_message(a, m)
    /\ promise_msgs' =
         IF lost THEN promise_msgs ELSE promise_msgs \cup {Reply(m, on_prepare_reply(a, m))}
    /\ UNCHANGED <<proposer_vars, prepare_msgs, accept_msgs, accepted_msgs, hist_vars>>

\* an acceptor handles an Accept; the Accepted is sent back, or lost
AcceptorAccept(a, m, lost) ==
    /\ on_accept_message(a, m)
    /\ accepted_msgs' =
         IF lost THEN accepted_msgs ELSE accepted_msgs \cup {Reply(m, on_accept_reply(a, m))}
    /\ UNCHANGED <<proposer_vars, prepare_msgs, accept_msgs, promise_msgs, hist_vars>>

\* a Promise reaches proposer p
ReceivePromise(p, msg, cap) ==
    /\ Cardinality(curr_promises[p] \cup {msg}) <= cap
    /\ on_promise_message(p, msg)
    /\ UNCHANGED <<acceptor_vars, prepare_msgs, accept_msgs, accepted_msgs,
                   solo_retry, prepares_issued>>

\* an Accepted reaches proposer p
ReceiveAccepted(p, msg, cap) ==
    /\ Cardinality(curr_accepted[p] \cup {msg}) <= cap
    /\ on_accepted_message(p, msg)
    /\ UNCHANGED <<acceptor_vars, prepare_msgs, accept_msgs, promise_msgs,
                   solo_retry, prepares_issued>>

\* the transport hands a reply it holds to its proposer
DeliverPromise(m, cap) ==
    /\ ReceivePromise(m.to, m.msg, cap)
    /\ promise_msgs' = promise_msgs \ {m}

DeliverAccepted(m, cap) ==
    /\ ReceiveAccepted(m.to, m.msg, cap)
    /\ accepted_msgs' = accepted_msgs \ {m}

\* the transport delivers one more copy of a reply the proposer has recorded
RedeliverPromise(p, msg) ==
    /\ ReceivePromise(p, msg, MaxRecorded)
    /\ UNCHANGED promise_msgs

RedeliverAccepted(p, msg) ==
    /\ ReceiveAccepted(p, msg, MaxRecorded)
    /\ UNCHANGED accepted_msgs

(***************************************************************************)
(* Spec: the whole system.  Callers follow the protocol: an Accept is      *)
(* asked for once the round's promises resolved.                           *)
(***************************************************************************)
Next ==
    \/ \E p \in Proposers : ClientProposes(p, ClientValue(p))
    \/ \E p \in Proposers : StartRound(p, MaxPrepares)
    \/ \E p \in Proposers : promises_resolved[p] /\ BroadcastAccept(p)
    \/ \E a \in Acceptors, m \in prepare_msgs :
         InFlight < MaxInFlight /\ AcceptorPrepare(a, m, FALSE)
    \/ \E a \in Acceptors, m \in accept_msgs :
         InFlight < MaxInFlight /\ AcceptorAccept(a, m, FALSE)
    \/ \E m \in promise_msgs : DeliverPromise(m, MaxRecorded)
    \/ \E m \in accepted_msgs : DeliverAccepted(m, MaxRecorded)
    \/ \E p \in Proposers : \E msg \in curr_promises[p] : RedeliverPromise(p, msg)
    \/ \E p \in Proposers : \E msg \in curr_accepted[p] : RedeliverAccepted(p, msg)

Spec == Init /\ [][Next]_vars

(***************************************************************************)
(* SpecAnyCall: the whole system, each proposer running one round, with a  *)
(* caller of the driven proposer that asks for the Accept at any point     *)
(* where get_accept_message returns one.                                   *)
(***************************************************************************)
Driven == {"proposer-1"}

NextAnyCall ==
    \/ \E p \in Proposers : ClientProposes(p, ClientValue(p))
    \/ \E p \in Proposers :
         curr_proposed_number[p] = NoNumber /\ StartRound(p, MaxPrepares)
    \/ \E p \in Proposers : (p \in Driven \/ promises_resolved[p]) /\ BroadcastAccept(p)
    \/ \E a \in Acceptors, m \in prepare_msgs :
         InFlight < MaxInFlight /\ AcceptorPrepare(a, m, FALSE)
    \/ \E a \in Acceptors, m \in accept_msgs :
         InFlight < MaxInFlight /\ AcceptorAccept(a, m, FALSE)
    \/ \E m \in promise_msgs : DeliverPromise(m, MaxRecorded)
    \/ \E m \in accepted_msgs : DeliverAccepted(m, MaxRecorded)
    \/ \E p \in Driven : \E msg \in curr_accepted[p] : RedeliverAccepted(p, msg)

SpecAnyCall == Init /\ [][NextAnyCall]_vars

(***************************************************************************)
(* SpecAcceptor: the acceptors alone, fed every Prepare and Accept in any  *)
(* order and any number of times.                                          *)
(***************************************************************************)
InputNumbers == {ProposalNumber(n, p) : n \in 1..MaxNumber, p \in Proposers}

NextAcceptor ==
    \/ \E a \in Acceptors, n \in InputNumbers :
         AcceptorPrepare(a, PrepareMessage(n), TRUE)
    \/ \E a \in Acceptors, n \in InputNumbers, v \in Values :
         AcceptorAccept(a, AcceptMessage(n, v), TRUE)

SpecAcceptor == Init /\ [][NextAcceptor]_vars

(***************************************************************************)
(* SpecProposer: one proposer alone, called in any order the code lets     *)
(* through and fed every Promise and Accepted two acceptors can send.      *)
(***************************************************************************)
InputAcceptors == {"acceptor-1", "acceptor-2"}
\* numbers below, equal to and above the first number of the driven proposer
ReplyNumbers == {ProposalNumberMin} \cup {ProposalNumber(1, p) : p \in Proposers}

PromiseInputs ==
    {PromiseMessage(a, NoNumber, None) : a \in InputAcceptors}
    \cup {PromiseMessage(a, n, v) :
            a \in InputAcceptors, n \in ReplyNumbers \ {ProposalNumberMin}, v \in Values}

AcceptedInputs ==
    {AcceptedMessage(a, n) : a \in InputAcceptors, n \in ReplyNumbers}

NextProposer ==
    \/ \E p \in Driven : ClientProposes(p, ClientValue(p))
    \/ \E p \in Driven : StartRound(p, MaxPrepares)
    \/ \E p \in Driven : BroadcastAccept(p)
    \/ \E p \in Driven, msg \in PromiseInputs :
         ReceivePromise(p, msg, MaxRecorded) /\ UNCHANGED promise_msgs
    \/ \E p \in Driven, msg \in AcceptedInputs :
         ReceiveAccepted(p, msg, MaxRecorded) /\ UNCHANGED accepted_msgs

SpecProposer == Init /\ [][NextProposer]_vars

(***************************************************************************)
(* SpecPromises: the prepare phase of one proposer alone, fed every        *)
(* Promise two acceptors can send, over any number of rounds.              *)
(***************************************************************************)
NextPromises ==
    \/ \E p \in Driven, v \in Values : ClientProposes(p, v)
    \/ \E p \in Driven : StartRound(p, MaxPrepares)
    \/ \E p \in Driven, msg \in PromiseInputs :
         ReceivePromise(p, msg, MaxRecorded) /\ UNCHANGED promise_msgs

SpecPromises == Init /\ [][NextPromises]_vars

(***************************************************************************)
(* SpecRounds: one proposer alone over several rounds, its callers         *)
(* following the protocol, fed empty Promises and the Accepted replies of  *)
(* two acceptors whose floors other proposers may have raised.             *)
(***************************************************************************)
\* the floors an Accepted reply to p can carry: the initial floor, a number
\* of another proposer, a number p has issued
FloorNumbers(p) ==
    {ProposalNumberMin}
    \cup {ProposalNumber(n, q) : n \in 1..(MaxNumber + 1), q \in Proposers \ {p}}
    \cup {ProposalNumber(n, p) : n \in 1..max_round_number[p]}

EmptyPromises == {PromiseMessage(a, NoNumber, None) : a \in InputAcceptors}

FloorReplies(p) == {AcceptedMessage(a, n) : a \in InputAcceptors, n \in FloorNumbers(p)}

NextRounds ==
    \/ \E p \in Driven : ClientProposes(p, ClientValue(p))
    \/ \E p \in Driven : StartRound(p, MaxPrepares)
    \/ \E p \in Driven : promises_resolved[p] /\ BroadcastAccept(p)
    \/ \E p \in Driven, msg \in EmptyPromises :
         ReceivePromise(p, msg, MaxRecorded) /\ UNCHANGED promise_msgs
    \/ \E p \in Driven : \E msg \in FloorReplies(p) :
         /\ accept_msgs # {}
         /\ ReceiveAccepted(p, msg, MaxRecorded) /\ UNCHANGED accepted_msgs

SpecRounds == Init /\ [][NextRounds]_vars

(***************************************************************************)
(* SpecNumbers: both proposers over several rounds, each fed as the one    *)
(* proposer of SpecRounds is.                                              *)
(***************************************************************************)
NextNumbers ==
    \/ \E p \in Proposers : ClientProposes(p, ClientValue(p))
    \/ \E p \in Proposers : StartRound(p, MaxPrepares + 1)
    \/ \E p \in Proposers : promises_resolved[p] /\ BroadcastAccept(p)
    \/ \E p \in Proposers, msg \in EmptyPromises :
         ReceivePromise(p, msg, MaxRecorded) /\ UNCHANGED promise_msgs
    \/ \E p \in Proposers : \E msg \in FloorReplies(p) :
         /\ get_accept_message(p) \in accept_msgs
         /\ ReceiveAccepted(p, msg, MaxRecorded) /\ UNCHANGED accepted_msgs

SpecNumbers == Init /\ [][NextNumbers]_vars

(***************************************************************************)
(* SpecRetry: the whole system with a caller that retries.  The driven     *)
(* proposer starts a further round after a rejection; while it retries the *)
(* other proposer sends nothing and the transport takes the requests of    *)
(* the new round to the acceptors one after the other.  Acceptors handle   *)
(* the requests of current rounds only, each until it took effect, and no  *)
(* reply is lost or delivered twice.                                       *)
(***************************************************************************)
Quiet(p) == \A q \in Proposers \ {p} : ~solo_retry[q]

IsCurrent(m) == m.proposal_number = curr_proposed_number[m.proposal_number[2]]

AcceptorRank(a) ==
    CASE a = "acceptor-1" -> 1
      [] a = "acceptor-2" -> 2
      [] a = "acceptor-3" -> 3

\* in a retry round acceptor a is reached after the acceptors before it
InTurn(a, m, done) ==
    solo_retry[m.proposal_number[2]]
    => \A b \in Acceptors : AcceptorRank(b) < AcceptorRank(a) => b \in done

\* what the caller of p has seen of the prepare phase of the current round
PreparePhaseDone(p) ==
    \/ promises_resolved[p]
    \/ /\ solo_retry[p]
       /\ promise_msgs = {}
       /\ \A a \in Acceptors : min_proposal_number[a] = curr_proposed_number[p]

\* the retrying proposer is fed every reply of its new round
RetryCap(p) == IF solo_retry[p] THEN RetryRecorded ELSE MaxRecorded

NextRetry ==
    \/ \E p \in Proposers : ClientProposes(p, ClientValue(p))
    \/ \E p \in Proposers :
         /\ curr_proposed_number[p] = NoNumber \/ (rejected[p] /\ p \in Driven)
         /\ Quiet(p)
         /\ StartRound(p, RetryPrepares)
    \/ \E p \in Proposers : Quiet(p) /\ PreparePhaseDone(p) /\ BroadcastAccept(p)
    \/ \E a \in Acceptors, m \in prepare_msgs :
         /\ InFlight < MaxInFlight /\ IsCurrent(m) /\ Quiet(m.proposal_number[2])
         /\ min_proposal_number[a] # m.proposal_number
         /\ InTurn(a, m, {b \in Acceptors : min_proposal_number[b] = m.proposal_number})
         /\ AcceptorPrepare(a, m, FALSE)
    \/ \E a \in Acceptors, m \in accept_msgs :
         /\ InFlight < MaxInFlight /\ IsCurrent(m) /\ Quiet(m.proposal_number[2])
         /\ accepted_proposal_number[a] # m.proposal_number
         /\ InTurn(a, m, {b \in Acceptors : accepted_proposal_number[b] = m.proposal_number})
         /\ AcceptorAccept(a, m, FALSE)
    \/ \E m \in promise_msgs : DeliverPromise(m, RetryCap(m.to))
    \/ \E m \in accepted_msgs : DeliverAccepted(m, RetryCap(m.to))

SpecRetry == Init /\ [][NextRetry]_vars

(***************************************************************************)
(* SpecSequential: the two proposers run one round each, one after the     *)
(* other, as in test_case_1.  The second starts once the first has decided *)
(* and no reply is on its way; from then on only its messages are handled. *)
(* Each round runs against the acceptors that took its Prepare.            *)
(***************************************************************************)
Started(p) == curr_proposed_number[p] # NoNumber

\* the round of p is the one the acceptors are serving
Serving(p) ==
    \A q \in Proposers \ {p} : ~Started(q) \/ (Decided(q) /\ ~Decided(p))

NextSequential ==
    \/ \E p \in Proposers : ClientProposes(p, ClientValue(p))
    \/ \E p \in Proposers :
         /\ ~Started(p)
         /\ \A q \in Proposers \ {p} : Started(q) => Decided(q) /\ InFlight = 0
         /\ StartRound(p, MaxPrepares)
    \/ \E p \in Proposers : Serving(p) /\ promises_resolved[p] /\ BroadcastAccept(p)
    \/ \E a \in Acceptors, m \in prepare_msgs :
         /\ InFlight < MaxInFlight /\ Serving(m.proposal_number[2])
         /\ AcceptMessage(m.proposal_number, curr_proposed_value[m.proposal_number[2]])
              \notin accept_msgs
         /\ a \notin SenderIds(curr_promises[m.proposal_number[2]])
         /\ AcceptorPrepare(a, m, FALSE)
    \/ \E a \in Acceptors, m \in accept_msgs :
         /\ InFlight < MaxInFlight /\ Serving(m.proposal_number[2])
         /\ a \in SenderIds(curr_promises[m.proposal_number[2]])
         /\ a \notin SenderIds(curr_accepted[m.proposal_number[2]])
         /\ AcceptorAccept(a, m, FALSE)
    \/ \E m \in promise_msgs : DeliverPromise(m, num_acceptors)
    \/ \E m \in accepted_msgs : DeliverAccepted(m, num_acceptors)

SpecSequential == Init /\ [][NextSequential]_vars

(***************************************************************************)
(* Properties                                                              *)
(***************************************************************************)
\* C1 (agreement): two proposers that both have chosen_value set hold the
\* same value.
C1_Agreement ==
    \A p, q \in Proposers : Decided(p) /\ Decided(q) => chosen_value[p] = chosen_value[q]

\* the replies on_accepted_message can be called with in this state
AcceptedArguments(p) ==
    curr_accepted[p] \cup {m.msg : m \in {x \in accepted_msgs : x.to = p}} \cup AcceptedInputs

\* C2 (preemption): a call of on_accepted_message on an undecided proposer
\* that resolves a quorum holding a reply above the proposer's number signals
\* the rejection and leaves chosen_value unset.
C2_PreemptionRejects ==
    [][\A p \in Proposers : \A msg \in AcceptedArguments(p) :
          ( /\ on_accepted_message(p, msg)
            /\ ~Decided(p)
            /\ Cardinality(curr_accepted'[p]) = quorum_size
            /\ \E x \in curr_accepted'[p] :
                 PNGreater(x.proposal_number, curr_proposed_number[p]) )
          => rejected'[p] /\ chosen_value'[p] = None]_vars

\* the promises on_promise_message can be called with in this state
PromiseArguments(p) ==
    curr_promises[p] \cup {m.msg : m \in {x \in promise_msgs : x.to = p}} \cup PromiseInputs

\* C3 (value adoption): when on_promise_message resolves a quorum, the
\* proposed value becomes the accepted value of a recorded promise with the
\* greatest accepted number; if every recorded promise is empty it stays the
\* value the client supplied.
C3_ValueAdoption ==
    [][\A p \in Proposers : \A msg \in PromiseArguments(p) :
          ( /\ on_promise_message(p, msg)
            /\ Cardinality(curr_promises'[p]) = quorum_size )
          => LET full == {m \in curr_promises'[p] : m.accepted_value # None}
             IN IF full # {}
                THEN \E m \in full :
                       /\ \A o \in full : PNGeq(m.accepted_proposal_number,
                                                o.accepted_proposal_number)
                       /\ curr_proposed_value'[p] = m.accepted_value
                ELSE /\ curr_proposed_value'[p] = curr_proposed_value[p]
                     /\ curr_proposed_value'[p] = client_value[p]]_vars

\* a proposer with a value of its own resolved a quorum of two promises that
\* carry different numbers and values, and holds the value of the greater
C3_Witness ==
    \E p \in Proposers :
       /\ Cardinality(curr_promises[p]) = quorum_size
       /\ promises_resolved[p]
       /\ client_value[p] # None
       /\ \E m, o \in curr_promises[p] :
            /\ m.accepted_proposal_number # NoNumber
            /\ o.accepted_proposal_number # NoNumber
            /\ PNGreater(m.accepted_proposal_number, o.accepted_proposal_number)
            /\ m.accepted_value # o.accepted_value
            /\ m.accepted_value # client_value[p]
            /\ curr_proposed_value[p] = m.accepted_value

\* C4 (acceptor monotonicity): no step lowers an acceptor's
\* min_proposal_number.
C4_FloorMonotone ==
    [][\A a \in Acceptors :
          PNGeq(min_proposal_number'[a], min_proposal_number[a])]_vars

\* an acceptor that took an Accept and whose floor stands above the number it
\* accepted, the highest number there is
C4_Witness ==
    \E a \in Acceptors :
       /\ accepted_proposal_number[a] # NoNumber
       /\ PNGreater(min_proposal_number[a], accepted_proposal_number[a])
       /\ \A n \in InputNumbers : PNGeq(min_proposal_number[a], n)

\* C5 (accepted number moves forward): once set, an acceptor's
\* accepted_proposal_number is never replaced by a smaller number.
C5_AcceptedMonotone ==
    [][\A a \in Acceptors :
          accepted_proposal_number[a] # NoNumber
          => PNGeq(accepted_proposal_number'[a], accepted_proposal_number[a])]_vars

\* C6 (chosen value is final): once chosen_value is set no call changes it.
C6_ChosenStable ==
    [][\A p \in Proposers : Decided(p) => chosen_value'[p] = chosen_value[p]]_vars

\* C7 (replies counted by identity): a reply set that stands at the size at
\* which the proposer resolves its quorum holds replies of quorum_size
\* distinct acceptors.
C7_QuorumByIdentity ==
    \A p \in Proposers :
       /\ Cardinality(curr_promises[p]) = quorum_size
          => Cardinality(SenderIds(curr_promises[p])) >= quorum_size
       /\ Cardinality(curr_accepted[p]) = quorum_size
          => Cardinality(SenderIds(curr_accepted[p])) >= quorum_size

\* C8 (clean round): a reply to a request of an earlier round, delivered
\* after get_prepare_message started the next round, does not make the
\* proposer adopt a value, resolve a quorum, decide or be rejected.
C8_StaleIgnored ==
    [][/\ \A m \in promise_msgs :
            ( /\ m.req # curr_proposed_number[m.to]
              /\ DeliverPromise(m, MaxRecorded) )
            => /\ curr_proposed_value'[m.to] = curr_proposed_value[m.to]
               /\ promises_resolved'[m.to] = promises_resolved[m.to]
       /\ \A m \in accepted_msgs :
            ( /\ m.req # curr_proposed_number[m.to]
              /\ DeliverAccepted(m, MaxRecorded) )
            => /\ chosen_value'[m.to] = chosen_value[m.to]
               /\ rejected'[m.to] = rejected[m.to]]_vars

\* C9 (accept needs a quorum): a call of get_accept_message returns an
\* Accept only if the current round resolved a quorum of promises.
C9_AcceptNeedsQuorum ==
    [][\A p \in Proposers : BroadcastAccept(p) => promises_resolved[p]]_vars

\* the retry round of p ran to its end: every acceptor took its Prepare and
\* its Accept, and every reply was delivered
RetryDone(p) ==
    /\ solo_retry[p]
    /\ promise_msgs = {} /\ accepted_msgs = {}
    /\ \A a \in Acceptors :
         /\ min_proposal_number[a] = curr_proposed_number[p]
         /\ accepted_proposal_number[a] = curr_proposed_number[p]
         /\ a \in SenderIds(curr_promises[p])
         /\ AcceptedMessage(a, curr_proposed_number[p]) \in curr_accepted[p]

\* C10 (rejection is recoverable): a rejected proposer whose next round runs
\* undisturbed, with every reply delivered, is decided at the end.
C10_RetryDecides ==
    \A p \in Proposers : RetryDone(p) => Decided(p)

\* the floors carried by the replies p held when its quorum branch ran
SeenFloors(p) == {accepted_iter[p][i].proposal_number : i \in 1..Len(accepted_iter[p])}

\* C11 (next number above every observed floor): the number that
\* get_prepare_message returns after a rejected round is greater than every
\* floor carried by the replies recorded when the rejection was detected.
C11_NextNumberAboveSeen ==
    [][\A p \in Proposers :
          (rejected[p] /\ get_prepare_message(p))
          => \A n \in SeenFloors(p) : PNGreater(curr_proposed_number'[p], n)]_vars

\* C12 (max_round_number only increases): get_prepare_message raises it and
\* no call of on_accepted_message lowers it.
C12_MaxRoundMonotone ==
    [][\A p \in Proposers :
          /\ max_round_number'[p] >= max_round_number[p]
          /\ get_prepare_message(p) => max_round_number'[p] > max_round_number[p]]_vars

\* a proposer whose rejection raised max_round_number above the round it ran,
\* which then started a further round and had its quorum branch run again
C12_Witness ==
    \E p \in Proposers :
       /\ accepted_iter[p] # <<>>
       /\ \E n \in SeenFloors(p) : n[1] > 1 /\ max_round_number[p] > n[1]
       /\ curr_proposed_number[p][1] = max_round_number[p]
       /\ Decided(p)

\* the proposal numbers returned by get_prepare_message so far
IssuedNumbers == {m.proposal_number : m \in prepare_msgs}

\* C13 (proposal numbers are unique): get_prepare_message never returns a
\* number that an earlier call, on this or on another proposer, returned.
C13_NumbersUnique ==
    [][\A p \in Proposers :
          get_prepare_message(p) => curr_proposed_number'[p] \notin IssuedNumbers]_vars

\* a proposer that was rejected with a floor above its round has started its
\* next round, and the other proposer has issued a number as well
C13_Witness ==
    \E p \in Proposers :
       /\ \E n \in SeenFloors(p) : n[1] > 1 /\ curr_proposed_number[p][1] > n[1]
       /\ ProposalNumber(1, p) \in IssuedNumbers
       /\ \E q \in Proposers \ {p} : curr_proposed_number[q] \in IssuedNumbers

\* p ran a full round: its Accept went out, the replies of a quorum of the
\* acceptors that promised were recorded, and no reply is on its way
RoundRan(p) ==
    /\ Started(p)
    /\ get_accept_message(p) \in accept_msgs
    /\ Cardinality(SenderIds(curr_accepted[p])) >= quorum_size
    /\ SenderIds(curr_accepted[p]) = SenderIds(curr_promises[p])
    /\ InFlight = 0

\* C14 (sequential convergence): when the second proposer has run its full
\* round after the first decided its value v, the second holds v as its
\* chosen_value.
C14_SequentialConvergence ==
    (\A p \in Proposers : RoundRan(p))
    => \E p \in Proposers : \E q \in Proposers \ {p} :
         /\ chosen_value[p] = client_value[p]
         /\ chosen_value[q] = chosen_value[p]

\* C14 as it holds: the second proposer never ends its round with its own
\* value, and it ends with v when its proposal number is above the number
\* the first decided with.
C14_ConvergenceAboveFirst ==
    (\A p \in Proposers : RoundRan(p))
    => \E p \in Proposers : \E q \in Proposers \ {p} :
         /\ chosen_value[p] = client_value[p]
         /\ chosen_value[q] # client_value[q]
         /\ curr_proposed_value[q] = chosen_value[p]
         /\ PNGreater(curr_proposed_number[q], curr_proposed_number[p])
            => chosen_value[q] = chosen_value[p]

\* both rounds ran, the second with the greater number, and the second
\* holds the value of the first and not its own
C14_Witness ==
    /\ \A p \in Proposers : RoundRan(p)
    /\ \E p \in Proposers : \E q \in Proposers \ {p} :
         /\ chosen_value[p] = client_value[p]
         /\ PNGreater(curr_proposed_number[q], curr_proposed_number[p])
         /\ chosen_value[q] = client_value[p]
         /\ client_value[q] # client_value[p]

\* C15 (idempotent redelivery): handing a proposer a Promise or an Accepted
\* equal to one it has recorded leaves the number of recorded replies as it
\* was.
C15_RedeliveryIdempotent ==
    [][\A p \in Proposers :
          /\ \A msg \in curr_promises[p] :
               on_promise_message(p, msg)
               => Cardinality(curr_promises'[p]) = Cardinality(curr_promises[p])
          /\ \A msg \in curr_accepted[p] :
               on_accepted_message(p, msg)
               => Cardinality(curr_accepted'[p]) = Cardinality(curr_accepted[p])]_vars

\* a proposer whose first round resolved its promises and sent its Accept,
\* and whose second round was resolved by one more copy of a recorded Promise
C15_Witness ==
    \E p \in Proposers :
       /\ \E v \in Values : AcceptMessage(ProposalNumber(1, p), v) \in accept_msgs
       /\ curr_proposed_number[p] = ProposalNumber(2, p)
       /\ promises_resolved[p]
       /\ Cardinality(curr_promises[p]) = quorum_size

C17_PromiseRule ==
    [][\A a \in Acceptors :
          /\ \A n \in InputNumbers : \A v \in Values :
               ( /\ on_accept_message(a, AcceptMessage(n, v))
                 /\ PNGreater(min_proposal_number[a], n) )
               => /\ accepted_proposal_number'[a] = accepted_proposal_number[a]
                  /\ accepted_value'[a] = accepted_value[a]
          /\ ( \/ accepted_proposal_number'[a] # accepted_proposal_number[a]
               \/ accepted_value'[a] # accepted_value[a] )
             => PNGeq(accepted_proposal_number'[a], min_proposal_number[a])]_vars

\* one acceptor adopted a proposal at the floor a Prepare had raised, while
\* another holds a pair below the floor it promised later
C17_Witness ==
    /\ \E a \in Acceptors :
         /\ min_proposal_number[a] # ProposalNumberMin
         /\ accepted_proposal_number[a] = min_proposal_number[a]
    /\ \E b \in Acceptors :
         /\ accepted_proposal_number[b] # NoNumber
         /\ PNGreater(min_proposal_number[b], accepted_proposal_number[b])

\* the acceptors that have adopted a proposal (a pair, once set, is only
\* ever replaced by another pair)
Adopters == {a \in Acceptors : accepted_proposal_number[a] # NoNumber}

\* C18 (a decision is backed by a quorum of acceptances): when a proposer
\* sets chosen_value to v under its number n, the Accept (n, v) has gone out
\* and at least quorum_size acceptors have adopted a proposal; fewer adopters
\* than that cannot include quorum_size adopters of (n, v).
C18_DecisionBacked ==
    [][\A p \in Proposers :
          (chosen_value'[p] # chosen_value[p])
          => /\ AcceptMessage(curr_proposed_number[p], chosen_value'[p]) \in accept_msgs
             /\ Cardinality(Adopters) >= quorum_size]_vars

\* C19 (one value per proposal number): the Accepts that get_accept_message
\* has returned under one proposal number carry one value.
C19_OneValuePerNumber ==
    \A m, o \in accept_msgs : m.proposal_number = o.proposal_number => m.value = o.value

\* the values clients have passed to propose_value
ProposedValues == {client_value[p] : p \in Proposers} \ {None}

\* C20 (validity): every accepted_value of an acceptor and every
\* chosen_value of a proposer is a value a client passed to propose_value.
C20_Validity ==
    /\ \A a \in Acceptors : accepted_value[a] # None => accepted_value[a] \in ProposedValues
    /\ \A p \in Proposers : Decided(p) => chosen_value[p] \in ProposedValues

\* a proposer decided the value of the other proposer's client, which
\* acceptors hold, while the other proposer is the only one to have been
\* handed that value
C20_Witness ==
    \E p \in Proposers : \E q \in Proposers \ {p} :
       /\ Decided(p)
       /\ chosen_value[p] = client_value[q]
       /\ chosen_value[p] # client_value[p]
       /\ \E a \in Acceptors : accepted_value[a] = chosen_value[p]

====
